---- MODULE Spec2Model ----
(***************************************************************************)
(* A model of the per-connection telemetry of go-libp2p-quic-transport:    *)
(*   - quicConnectionTracer: the ConnectionStats aggregator driven by      *)
(*     the callbacks of the QUIC engine, and its Close handler,            *)
(*     which serialises the record (metrics.ConnectionStats.toBigQuery)    *)
(*     and uploads it (metrics.ConnectionStats.Save);                      *)
(*   - qlogger: bufio.Writer -> zstd.Encoder -> temp file,                 *)
(*     published under its final name by a rename in qlogger.Close.        *)
(***************************************************************************)
EXTENDS Integers, Sequences, FiniteSets, TLC

VARIABLES
    stats,        \* metrics.ConnectionStats embedded in quicConnectionTracer
    now,          \* the last reading of time.Now() (0 is the zero time.Time)
    crashed,      \* TRUE once a handler panicked (the process is gone)
    closeCalls,   \* number of quicConnectionTracer.Close calls that returned
    rows,         \* the rows handed to Inserter.Put, in order
    logged,       \* the errors log.Errorf wrote in quicConnectionTracer.Close, in order
    nEvents,      \* history: number of callbacks delivered to the tracer
    delivered,    \* history: number of callbacks delivered, per packet event kind
    ptoHist,      \* history: the values passed to UpdatedPTOCount, in order
    pc,           \* where the qlogger is: not created, open, or a step of Close
    w,            \* the writer: bufio.Writer and zstd.Encoder of the qlogger
    fs,           \* the files of QLOGDIR, by path
    fopen,        \* TRUE while the handle qlogger.f is open
    disk,         \* what the device of QLOGDIR still takes before writes fail
    written,      \* history: the bytes passed to qlogger.Write, in call order
    steps,        \* history: the calls qlogger.Close made, with their results
    bwcRet,       \* what bufferedWriteCloser.Close returned ("pending" before)
    closeRet,     \* what qlogger.Close returned ("pending" before)
    names         \* the file names newQlogger computed, one entry per writer

statsVars == <<stats, now, crashed, closeCalls, rows, logged, nEvents, delivered, ptoHist>>

qlogVars == <<pc, w, fs, fopen, disk, written, steps, bwcRet, closeRet>>

nameVars == <<names>>

vars == <<statsVars, qlogVars, nameVars>>

----------------------------------------------------------------------------
(* Bounds of the model *)

\* callbacks delivered to one tracer
MaxEvents == 4

\* largest value reported by UpdatedPTOCount
MaxPTOValue == 3

\* UpdatedPTOCount callbacks delivered to a tracer that gets no other callback
MaxPTOUpdates == 6

\* bytes passed to qlogger.Write in all, and in one call
MaxWritten == 8

MaxWriteLen == 4

\* the size of the bufio.Writer buffer, and of a block of the zstd.Encoder
BufSize == 2

ZBlock == 3

\* blocks the device of QLOGDIR takes before it is full, when it fills up
MaxDisk == 4

\* qloggers created in the same QLOGDIR
MaxWriters == 2

----------------------------------------------------------------------------
(* Values *)

\* the zero time.Time
ZeroTime == 0

IsZero(t) == t = ZeroTime

\* a nil net.Addr interface value
NilAddr == "nil"

Addrs == {"10.0.0.1:4001"}

\* logging.VersionNumber; the zero value is 0
Versions == {1}

Perspectives == {"client", "server"}

PerspectiveClient == "client"

EncryptionLevels == {"Initial", "Handshake", "0RTT", "1RTT"}

Encryption1RTT == "1RTT"

\* time.Duration values, in nanoseconds
ZeroRTT == [MinRTT |-> 0, SmoothedRTT |-> 0, RTTVar |-> 0]

RTTSamples ==
    { [MinRTT |-> 1000000, SmoothedRTT |-> 1500000, RTTVar |-> 250000],
      [MinRTT |-> 2000000, SmoothedRTT |-> 3999999, RTTVar |-> 1000000] }

\* a pointer or bigquery.Null* value: unset (nil / Valid = false) or set
Null == <<>>

Some(x) == <<x>>

(* logging.CloseReason: at most one of its pointer fields is set by the     *)
(* constructors of the logging package; the zero value sets none.          *)
CloseReasonZero ==
    [remote |-> FALSE, timeout |-> Null, statelessReset |-> FALSE,
     applicationError |-> Null, transportError |-> Null]

NewTimeoutCloseReason(r) == [CloseReasonZero EXCEPT !.timeout = Some(r)]

NewStatelessResetCloseReason == [CloseReasonZero EXCEPT !.statelessReset = TRUE]

NewApplicationCloseReason(code, remote) ==
    [CloseReasonZero EXCEPT !.applicationError = Some(code), !.remote = remote]

NewTransportCloseReason(code, remote) ==
    [CloseReasonZero EXCEPT !.transportError = Some(code), !.remote = remote]

TimeoutReasonHandshake == "Handshake"

TimeoutReasonIdle == "Idle"

TimeoutReasons == {TimeoutReasonHandshake, TimeoutReasonIdle, "Other"}

ErrorCodes == {3}

CloseReasons ==
    {CloseReasonZero, NewStatelessResetCloseReason}
    \cup {NewTimeoutCloseReason(r) : r \in TimeoutReasons}
    \cup {NewApplicationCloseReason(c, b) : c \in ErrorCodes, b \in BOOLEAN}
    \cup {NewTransportCloseReason(c, b) : c \in ErrorCodes, b \in BOOLEAN}

----------------------------------------------------------------------------
(* metrics.ConnectionStats and its serialisation *)

\* the record newConnectionTracer returns: every field but ODCID, Node and
\* Perspective holds its zero value
newConnectionTracer(pers) ==
    [Node |-> "peer", Perspective |-> pers, ODCID |-> "odcid",
     StartTime |-> ZeroTime, EndTime |-> ZeroTime, HandshakeCompleteTime |-> ZeroTime,
     Version |-> 0, LocalAddr |-> NilAddr, RemoteAddr |-> NilAddr,
     RetryRcvd |-> FALSE, VersionNegotiationVersions |-> <<>>,
     PacketsSent |-> 0, PacketsRcvd |-> 0, PacketsBuffered |-> 0,
     PacketsDropped |-> 0, PacketsLost |-> 0, PTOCount |-> 0,
     LastRTT |-> ZeroRTT, HandshakeRTT |-> ZeroRTT,
     CloseReason |-> CloseReasonZero]

NsPerMs == 1000000

\* float64(d.Nanoseconds() / 1e6): an integer division
toMilliSecond(d) == d \div NsPerMs

RTTtoBigQuery(m) ==
    [MinRTT |-> toMilliSecond(m.MinRTT),
     SmoothedRTT |-> toMilliSecond(m.SmoothedRTT),
     RTTVar |-> toMilliSecond(m.RTTVar)]

\* the String() methods of peer.ID, ConnectionID, VersionNumber and net.Addr
String(kind, x) == <<kind, x>>

TimeoutReasonString(t) ==
    CASE t = TimeoutReasonHandshake -> "handshake"
      [] t = TimeoutReasonIdle -> "idle"
      [] OTHER -> "unknown"

closeReasonZero ==
    [Timeout |-> Null, StatelessReset |-> Null, TransportError |-> Null,
     ApplicationError |-> Null, ErrorMessage |-> Null]

\* the if / else-if chain of toBigQuery that builds the closeReason record
closeReasonDoubleSet(r) ==
    IF r.statelessReset
    THEN [closeReasonZero EXCEPT !.StatelessReset = Some(TRUE)]
    ELSE IF r.timeout # Null
    THEN [closeReasonZero EXCEPT !.Timeout = Some(TimeoutReasonString(r.timeout[1])),
                                 !.StatelessReset = Some(FALSE)]
    ELSE IF r.applicationError # Null
    THEN [closeReasonZero EXCEPT
            !.ApplicationError = Some([Remote |-> r.remote, ErrorCode |-> r.applicationError[1]]),
            !.TransportError = Some([Remote |-> r.remote, ErrorCode |-> r.applicationError[1]])]
    ELSE IF r.transportError # Null
    THEN [closeReasonZero EXCEPT
            !.TransportError = Some([Remote |-> r.remote, ErrorCode |-> r.transportError[1]])]
    ELSE closeReasonZero

closeReason(r) ==
    IF r.statelessReset
    THEN [closeReasonZero EXCEPT !.StatelessReset = Some(TRUE)]
    ELSE IF r.timeout # Null
    THEN [closeReasonZero EXCEPT !.Timeout = Some(TimeoutReasonString(r.timeout[1]))]
    ELSE IF r.applicationError # Null
    THEN [closeReasonZero EXCEPT
            !.ApplicationError = Some([Remote |-> r.remote, ErrorCode |-> r.applicationError[1]])]
    ELSE IF r.transportError # Null
    THEN [closeReasonZero EXCEPT
            !.TransportError = Some([Remote |-> r.remote, ErrorCode |-> r.transportError[1]])]
    ELSE closeReasonZero

\* s.LocalAddr.String() and s.RemoteAddr.String() are method calls on an
\* interface value: on a nil interface they panic
toBigQueryPanics(s) == s.LocalAddr = NilAddr \/ s.RemoteAddr = NilAddr

toBigQuery(s) ==
    [NodeID |-> String("peer.ID", s.Node),
     QuicGoVersion |-> "(devel)",
     IsClient |-> s.Perspective = PerspectiveClient,
     StartTime |-> s.StartTime,
     EndTime |-> s.EndTime,
     ODCID |-> String("ConnectionID", s.ODCID),
     HandshakeCompleteTime |->
        IF IsZero(s.HandshakeCompleteTime) THEN Null ELSE Some(s.HandshakeCompleteTime),
     HandshakeRTT |-> Some(RTTtoBigQuery(s.HandshakeRTT)),
     RetryRcvd |-> IF s.Perspective = PerspectiveClient THEN Some(s.RetryRcvd) ELSE Null,
     VersionNegotiationVersions |->
        [i \in 1..Len(s.VersionNegotiationVersions) |->
            String("VersionNumber", s.VersionNegotiationVersions[i])],
     Version |-> String("VersionNumber", s.Version),
     LocalAddr |-> String("net.Addr", s.LocalAddr),
     RemoteAddr |-> String("net.Addr", s.RemoteAddr),
     PacketsSent |-> s.PacketsSent,
     PacketsRcvd |-> s.PacketsRcvd,
     PacketsBuffered |-> s.PacketsBuffered,
     PacketsDropped |-> s.PacketsDropped,
     PacketsLost |-> s.PacketsLost,
     LastRTT |-> RTTtoBigQuery(s.LastRTT),
     CloseReason |-> closeReason(s.CloseReason),
     \* the fields the struct literal does not name keep their zero value
     PTOCount |-> 0,
     Qlog |-> Null]

----------------------------------------------------------------------------
(* quicConnectionTracer: one action per callback of logging.ConnectionTracer *)

PacketKinds ==
    {"sent", "received", "retry", "versionNegotiation", "buffered", "dropped", "lost"}

\* history of a delivered callback that is not a packet event
Delivered ==
    /\ nEvents' = nEvents + 1
    /\ UNCHANGED <<delivered, qlogVars, nameVars>>

\* history of a delivered packet event
DeliveredPacket(kind) ==
    /\ nEvents' = nEvents + 1
    /\ delivered' = [delivered EXCEPT ![kind] = @ + 1]
    /\ UNCHANGED <<qlogVars, nameVars>>

\* time.Now(): the clock never runs backwards, and may not have advanced
Clock == {now, now + 1}

StartedConnection(local, remote, version) ==
    \E t \in Clock :
        /\ now' = t
        /\ stats' = [stats EXCEPT !.StartTime = t, !.LocalAddr = local,
                                  !.RemoteAddr = remote, !.Version = version]
        /\ Delivered
        /\ UNCHANGED <<crashed, closeCalls, rows, logged, ptoHist>>

ClosedConnection(r) ==
    \E t \in Clock :
        /\ now' = t
        /\ stats' = [stats EXCEPT !.CloseReason = r, !.EndTime = t]
        /\ Delivered
        /\ UNCHANGED <<crashed, closeCalls, rows, logged, ptoHist>>

SentPacketUncounted ==
    /\ DeliveredPacket("sent")
    /\ UNCHANGED <<stats, now, crashed, closeCalls, rows, logged, ptoHist>>

SentPacket ==
    /\ stats' = [stats EXCEPT !.PacketsSent = @ + 1]
    /\ DeliveredPacket("sent")
    /\ UNCHANGED <<now, crashed, closeCalls, rows, logged, ptoHist>>

ReceivedVersionNegotiationPacket(v) ==
    /\ stats' = [stats EXCEPT !.PacketsRcvd = @ + 1,
                              !.VersionNegotiationVersions = v]
    /\ DeliveredPacket("versionNegotiation")
    /\ UNCHANGED <<now, crashed, closeCalls, rows, logged, ptoHist>>

ReceivedRetry ==
    /\ stats' = [stats EXCEPT !.PacketsRcvd = @ + 1, !.RetryRcvd = TRUE]
    /\ DeliveredPacket("retry")
    /\ UNCHANGED <<now, crashed, closeCalls, rows, logged, ptoHist>>

ReceivedPacket ==
    /\ stats' = [stats EXCEPT !.PacketsRcvd = @ + 1]
    /\ DeliveredPacket("received")
    /\ UNCHANGED <<now, crashed, closeCalls, rows, logged, ptoHist>>

BufferedPacket ==
    /\ stats' = [stats EXCEPT !.PacketsBuffered = @ + 1]
    /\ DeliveredPacket("buffered")
    /\ UNCHANGED <<now, crashed, closeCalls, rows, logged, ptoHist>>

DroppedPacket ==
    /\ stats' = [stats EXCEPT !.PacketsDropped = @ + 1]
    /\ DeliveredPacket("dropped")
    /\ UNCHANGED <<now, crashed, closeCalls, rows, logged, ptoHist>>

UpdatedMetrics(rttStats) ==
    /\ stats' = [stats EXCEPT !.LastRTT =
                    [SmoothedRTT |-> rttStats.SmoothedRTT,
                     RTTVar |-> rttStats.RTTVar,
                     MinRTT |-> rttStats.MinRTT]]
    /\ Delivered
    /\ UNCHANGED <<now, crashed, closeCalls, rows, logged, ptoHist>>

LostPacket ==
    /\ stats' = [stats EXCEPT !.PacketsLost = @ + 1]
    /\ DeliveredPacket("lost")
    /\ UNCHANGED <<now, crashed, closeCalls, rows, logged, ptoHist>>

\* what UpdatedPTOCount(value) adds to PTOCount
PTOIncrementAlways(value) == 1

\* a counter that adds the reported value
PTOIncrementByValue(value) == value

PTOIncrement(value) == IF value > 0 THEN 1 ELSE 0

UpdatedPTOCount(value) ==
    /\ stats' = [stats EXCEPT !.PTOCount = @ + PTOIncrement(value)]
    /\ ptoHist' = Append(ptoHist, value)
    /\ Delivered
    /\ UNCHANGED <<now, crashed, closeCalls, rows, logged>>

UpdatedKeyFromTLS(l, p) ==
    /\ IF l = Encryption1RTT /\ p = PerspectiveClient
       THEN \E t \in Clock :
                /\ now' = t
                /\ stats' = [stats EXCEPT !.HandshakeCompleteTime = t,
                                          !.HandshakeRTT = stats.LastRTT]
       ELSE UNCHANGED <<stats, now>>
    /\ Delivered
    /\ UNCHANGED <<crashed, closeCalls, rows, logged, ptoHist>>

\* the callbacks whose body is empty
NoOp ==
    /\ Delivered
    /\ UNCHANGED <<stats, now, crashed, closeCalls, rows, logged, ptoHist>>

SentTransportParameters == NoOp

ReceivedTransportParameters == NoOp

UpdatedCongestionState == NoOp

UpdatedKey == NoOp

DroppedEncryptionLevel == NoOp

\* a DroppedKey that counts as a dropped packet
DroppedKeyCounted ==
    /\ stats' = [stats EXCEPT !.PacketsDropped = @ + 1]
    /\ Delivered
    /\ UNCHANGED <<now, crashed, closeCalls, rows, logged, ptoHist>>

DroppedKey == NoOp

SetLossTimer == NoOp

LossTimerExpired == NoOp

LossTimerCanceled == NoOp

Debug == NoOp

(* ConnectionStats.Save: bigquery.NewClient, then Inserter.Put of the row   *)
(* toBigQuery builds. The result is the error returned ("nil" for none),   *)
(* or "panic" when toBigQuery dereferences a nil address.                  *)
ClientResults == {"nil", "client construction failed"}

PutResults == {"nil", "upsert failed", "context deadline exceeded"}

Save(s, client, put) ==
    IF client # "nil" THEN client
    ELSE IF toBigQueryPanics(s) THEN "panic"
    ELSE put

\* a Close that logs the error of Save and panics with it (log.Panicf)
TracerCloseRaising(client, put) ==
    LET err == Save(stats, client, put) IN
    /\ crashed' = (err # "nil")
    /\ closeCalls' = IF err # "nil" THEN closeCalls ELSE closeCalls + 1
    /\ rows' = IF client = "nil" /\ err # "panic"
               THEN Append(rows, toBigQuery(stats)) ELSE rows
    /\ logged' = IF err \notin {"nil", "panic"} THEN Append(logged, err) ELSE logged
    /\ Delivered
    /\ UNCHANGED <<stats, now, ptoHist>>

\* quicConnectionTracer.Close: the error of Save is logged, nothing is returned
TracerClose(client, put) ==
    LET err == Save(stats, client, put) IN
    /\ crashed' = (err = "panic")
    /\ closeCalls' = IF err = "panic" THEN closeCalls ELSE closeCalls + 1
    /\ rows' = IF client = "nil" /\ err # "panic"
               THEN Append(rows, toBigQuery(stats)) ELSE rows
    /\ logged' = IF err \notin {"nil", "panic"} THEN Append(logged, err) ELSE logged
    /\ Delivered
    /\ UNCHANGED <<stats, now, ptoHist>>

----------------------------------------------------------------------------
(* qlogger: bufio.Writer -> zstd.Encoder -> temp file.                      *)
(* bufio and zstd are libraries: bufio.Writer is modelled by its Write and *)
(* Flush, zstd.Encoder as a framed block transform (a header, one block    *)
(* per ZBlock bytes, a last block carrying the trailer on Close) with the  *)
(* sticky error of the library. No error is written "nil".                 *)

\* QLOGDIR/.log_<t>_<role>_<connID>.qlog.zst.swp and QLOGDIR/log_<...>.qlog.zst
TempPath == "QLOGDIR/.log_t_r_id.qlog.zst.swp"

FinalPath == "QLOGDIR/log_t_r_id.qlog.zst"

Paths == {TempPath, FinalPath}

NoFile == [exists |-> FALSE, data |-> <<>>]

\* the bytes of a Write are numbered by their position in the stream, so that
\* a lost, repeated or reordered byte shows in the content
NextBytes(n) == [i \in 1..n |-> Len(written) + i]

EncByte(b) == 0 - b

DecByte(e) == 0 - e

HeaderToken == [t |-> "header", d |-> <<>>]

BlockToken(final, bytes) ==
    [t |-> IF final THEN "last" ELSE "block",
     d |-> [i \in 1..Len(bytes) |-> EncByte(bytes[i])]]

\* a frame that a decoder accepts: header, blocks, and the last block
IsCompleteStream(data) ==
    /\ Len(data) >= 2
    /\ data[1].t = "header"
    /\ data[Len(data)].t = "last"
    /\ \A i \in 2..(Len(data) - 1) : data[i].t = "block"

RECURSIVE Decoded(_)
\* the content a decoder reads from the blocks of a frame
Decoded(data) ==
    IF data = <<>> THEN <<>>
    ELSE LET tok == data[Len(data)] IN
         Decoded(SubSeq(data, 1, Len(data) - 1))
            \o [i \in 1..Len(tok.d) |-> DecByte(tok.d[i])]

\* the writer newQlogger builds: an empty bufio buffer over a fresh encoder.
\* async: the encoder compresses blocks concurrently and reports a failed
\* write of a block at the next block or at Close
NewWriter(async) ==
    [buf |-> <<>>, berr |-> "nil",
     zfill |-> <<>>, zerr |-> "nil", zhdr |-> FALSE, zasync |-> async, zin |-> <<>>]

\* the writer together with the temp file and its device, while a call runs
Pipe ==
    [buf |-> w.buf, berr |-> w.berr, zfill |-> w.zfill, zerr |-> w.zerr,
     zhdr |-> w.zhdr, zasync |-> w.zasync, zin |-> w.zin,
     file |-> fs[TempPath].data, disk |-> disk, ret |-> "nil"]

Commit(st) ==
    /\ w' = [buf |-> st.buf, berr |-> st.berr, zfill |-> st.zfill, zerr |-> st.zerr,
             zhdr |-> st.zhdr, zasync |-> st.zasync, zin |-> st.zin]
    /\ fs' = [fs EXCEPT ![TempPath].data = st.file]
    /\ disk' = st.disk

\* os.File.Write of one block: fails once the device is full
FileWrite(st, tok) ==
    IF st.disk.limited /\ st.disk.free = 0
    THEN [st EXCEPT !.ret = "no space left on device"]
    ELSE [st EXCEPT !.file = Append(@, tok),
                    !.disk.free = IF st.disk.limited THEN @ - 1 ELSE @,
                    !.ret = "nil"]

\* zstd.Encoder.nextBlock: the frame header before the first block, then the
\* block; a failed write sticks in the encoder
ZNextBlock(st, final) ==
    IF st.zerr # "nil" THEN [st EXCEPT !.ret = st.zerr]
    ELSE LET s1 == IF st.zhdr THEN [st EXCEPT !.ret = "nil"]
                   ELSE FileWrite(st, HeaderToken)
             s2 == IF s1.ret # "nil" THEN s1
                   ELSE FileWrite([s1 EXCEPT !.zhdr = TRUE], BlockToken(final, st.zfill))
         IN IF s2.ret = "nil"
            THEN [s2 EXCEPT !.zfill = <<>>]
            ELSE [s2 EXCEPT !.zfill = <<>>, !.zerr = s2.ret,
                            !.ret = IF st.zasync /\ ~final THEN "nil" ELSE s2.ret]

RECURSIVE ZWriteLoop(_, _)
ZWriteLoop(st, p) ==
    IF Len(p) + Len(st.zfill) < ZBlock
    THEN [st EXCEPT !.zfill = @ \o p, !.ret = "nil"]
    ELSE LET k == ZBlock - Len(st.zfill)
             s1 == ZNextBlock([st EXCEPT !.zfill = @ \o SubSeq(p, 1, k)], FALSE)
         IN IF s1.ret # "nil" THEN s1
            ELSE ZWriteLoop(s1, SubSeq(p, k + 1, Len(p)))

\* zstd.Encoder.Write
ZWrite(st, p) == ZWriteLoop([st EXCEPT !.zin = @ \o p], p)

\* zstd.Encoder.Close: the last block, with what is left, and the trailer
ZClose(st) == ZNextBlock(st, TRUE)

\* bufio.Writer.Flush
BufFlush(st) ==
    IF st.berr # "nil" THEN [st EXCEPT !.ret = st.berr]
    ELSE IF st.buf = <<>> THEN [st EXCEPT !.ret = "nil"]
    ELSE LET s1 == ZWrite(st, st.buf) IN
         IF s1.ret # "nil" THEN [s1 EXCEPT !.berr = s1.ret]
         ELSE [s1 EXCEPT !.buf = <<>>]

RECURSIVE BufWrite(_, _)
\* bufio.Writer.Write
BufWrite(st, p) ==
    IF Len(p) > BufSize - Len(st.buf) /\ st.berr = "nil"
    THEN IF st.buf = <<>>
         THEN LET s1 == ZWrite(st, p) IN
              BufWrite([s1 EXCEPT !.berr = s1.ret], <<>>)
         ELSE LET n == BufSize - Len(st.buf)
                  s1 == BufFlush([st EXCEPT !.buf = @ \o SubSeq(p, 1, n)])
              IN BufWrite(s1, SubSeq(p, n + 1, Len(p)))
    ELSE IF st.berr # "nil" THEN [st EXCEPT !.ret = st.berr]
    ELSE [st EXCEPT !.buf = @ \o p, !.ret = "nil"]

\* a newQlogger that creates its file under the final name
newQloggerAtFinalName(create, zinit, async) ==
    IF ~create
    THEN pc' = "nowriter" /\ UNCHANGED <<w, fs, fopen>>
    ELSE /\ fs' = [fs EXCEPT ![FinalPath] = [exists |-> TRUE, data |-> <<>>]]
         /\ fopen' = TRUE
         /\ IF ~zinit
            THEN pc' = "nowriter" /\ UNCHANGED w
            ELSE pc' = "open" /\ w' = NewWriter(async)

\* newQlogger: os.Create of the temp file, then zstd.NewWriter; nil (no
\* writer) when either fails
newQlogger(create, zinit, async) ==
    IF ~create
    THEN pc' = "nowriter" /\ UNCHANGED <<w, fs, fopen>>
    ELSE /\ fs' = [fs EXCEPT ![TempPath] = [exists |-> TRUE, data |-> <<>>]]
         /\ fopen' = TRUE
         /\ IF ~zinit
            THEN pc' = "nowriter" /\ UNCHANGED w
            ELSE pc' = "open" /\ w' = NewWriter(async)

\* the callback initQlogger hands to qlog.NewTracer: os.MkdirAll, newQlogger
initQlogger(mkdir, create, zinit, async) ==
    /\ pc = "new"
    /\ IF ~mkdir
       THEN pc' = "nowriter" /\ UNCHANGED <<w, fs, fopen>>
       ELSE newQlogger(create, zinit, async)
    /\ UNCHANGED <<disk, written, steps, bwcRet, closeRet, statsVars, nameVars>>

\* qlogger.Write, promoted from bufferedWriteCloser's bufio.Writer
Write(p) ==
    /\ pc = "open"
    /\ Commit(BufWrite(Pipe, p))
    /\ written' = written \o p
    /\ UNCHANGED <<pc, fopen, steps, bwcRet, closeRet, statsVars, nameVars>>

\* a call qlogger.Close makes, with what holds when it is made: the bytes in
\* the bufio buffer and in the encoder's block, the bytes fed to the encoder,
\* whether the handle is open, and the tracer Close calls that have returned
Step(op, ret) ==
    [op |-> op, ret |-> ret, pending |-> Len(w.buf), fed |-> w.zin,
     unframed |-> Len(w.zfill), open |-> fopen, closes |-> closeCalls]

(* qlogger.Close, one action per call it makes: the files are visible to   *)
(* the rest of the system between them.                                    *)

\* bufferedWriteCloser.Close with the Flush left out
CloseFlushSkipped ==
    /\ pc = "open"
    /\ steps' = Append(steps, Step("Flush", "nil"))
    /\ pc' = "flushed"
    /\ UNCHANGED <<w, fs, disk, bwcRet, closeRet, fopen, written, statsVars, nameVars>>

\* bufferedWriteCloser.Close going on to close the sink after a failed Flush
CloseFlushNoShortCircuit ==
    /\ pc = "open"
    /\ LET st == BufFlush(Pipe) IN
        /\ Commit(st)
        /\ steps' = Append(steps, Step("Flush", st.ret))
        /\ pc' = "flushed"
        /\ UNCHANGED <<bwcRet, closeRet>>
    /\ UNCHANGED <<fopen, written, statsVars, nameVars>>

\* bufferedWriteCloser.Close, first half: h.Writer.Flush()
CloseFlush ==
    /\ pc = "open"
    /\ LET st == BufFlush(Pipe) IN
        /\ Commit(st)
        /\ steps' = Append(steps, Step("Flush", st.ret))
        /\ IF st.ret # "nil"
           THEN bwcRet' = st.ret /\ closeRet' = st.ret /\ pc' = "done"
           ELSE pc' = "flushed" /\ UNCHANGED <<bwcRet, closeRet>>
    /\ UNCHANGED <<fopen, written, statsVars, nameVars>>

\* qlogger.Close renaming right after the encoder's Close, the handle open
CloseCodecThenRename ==
    /\ pc = "flushed"
    /\ LET st == ZClose(Pipe) IN
        /\ Commit(st)
        /\ steps' = Append(steps, Step("zstd.Close", st.ret))
        /\ bwcRet' = st.ret
        /\ IF st.ret # "nil"
           THEN closeRet' = st.ret /\ pc' = "done"
           ELSE pc' = "fclosed" /\ UNCHANGED closeRet
    /\ UNCHANGED <<fopen, written, statsVars, nameVars>>

\* bufferedWriteCloser.Close, second half: h.Closer.Close(), the encoder's
CloseCodec ==
    /\ pc = "flushed"
    /\ LET st == ZClose(Pipe) IN
        /\ Commit(st)
        /\ steps' = Append(steps, Step("zstd.Close", st.ret))
        /\ bwcRet' = st.ret
        /\ IF st.ret # "nil"
           THEN closeRet' = st.ret /\ pc' = "done"
           ELSE pc' = "zclosed" /\ UNCHANGED closeRet
    /\ UNCHANGED <<fopen, written, statsVars, nameVars>>

FileCloseResults == {"nil", "file close failed"}

\* qlogger.Close going on to the rename after a failed l.f.Close()
CloseFileErrorIgnored(err) ==
    /\ pc = "zclosed"
    /\ fopen' = FALSE
    /\ steps' = Append(steps, Step("File.Close", err))
    /\ pc' = "fclosed"
    /\ UNCHANGED <<closeRet, w, fs, disk, written, bwcRet, statsVars, nameVars>>

\* qlogger.Close: l.f.Close()
CloseFile(err) ==
    /\ pc = "zclosed"
    /\ fopen' = FALSE
    /\ steps' = Append(steps, Step("File.Close", err))
    /\ IF err # "nil"
       THEN closeRet' = err /\ pc' = "done"
       ELSE pc' = "fclosed" /\ UNCHANGED closeRet
    /\ UNCHANGED <<w, fs, disk, written, bwcRet, statsVars, nameVars>>

RenameResults == {"nil", "rename failed"}

\* qlogger.Close removing the temp file when os.Rename fails
RenameCleaningUp(err) ==
    /\ pc = "fclosed"
    /\ steps' = Append(steps, Step("Rename", err))
    /\ fs' = IF err = "nil"
             THEN [fs EXCEPT ![FinalPath] = fs[TempPath], ![TempPath] = NoFile]
             ELSE [fs EXCEPT ![TempPath] = NoFile]
    /\ closeRet' = err
    /\ pc' = "done"
    /\ UNCHANGED <<w, fopen, disk, written, bwcRet, statsVars, nameVars>>

\* qlogger.Close: return os.Rename(path, l.filename)
Rename(err) ==
    /\ pc = "fclosed"
    /\ steps' = Append(steps, Step("Rename", err))
    /\ fs' = IF err = "nil"
             THEN [fs EXCEPT ![FinalPath] = fs[TempPath], ![TempPath] = NoFile]
             ELSE fs
    /\ closeRet' = err
    /\ pc' = "done"
    /\ UNCHANGED <<w, fopen, disk, written, bwcRet, statsVars, nameVars>>

----------------------------------------------------------------------------
(* The file names of newQlogger. A name is the sequence of its characters, *)
(* built as fmt.Sprintf builds it: the directory, the separator, "log_",   *)
(* the time, the role and the connection ID in hexadecimal.                *)

HexDigits == <<"0", "1", "2", "3", "4", "5", "6", "7", "8", "9",
               "a", "b", "c", "d", "e", "f">>

HexDigit(n) == HexDigits[n + 1]

\* a byte printed without its leading zero
HexByteUnpadded(b) ==
    IF b < 16 THEN <<HexDigit(b)>> ELSE <<HexDigit(b \div 16), HexDigit(b % 16)>>

\* %x of one byte of a []byte: two digits
HexByte(b) == <<HexDigit(b \div 16), HexDigit(b % 16)>>

RECURSIVE Hex(_)
\* %x of a []byte
Hex(connID) ==
    IF connID = <<>> THEN <<>> ELSE HexByte(Head(connID)) \o Hex(Tail(connID))

\* the connection IDs of the writers: none, one byte, two bytes
ConnIDs == {<<>>, <<1>>, <<16>>, <<1, 0>>, <<0, 1>>}

\* time.Now() as seconds and tenths of a second
Times == {[sec |-> 1, tenths |-> 0], [sec |-> 1, tenths |-> 5], [sec |-> 2, tenths |-> 0]}

\* Format("2006-01-02T15-04-05.999999999UTC"): the fraction is printed without
\* its trailing zeros, and not at all when it is zero
Format(t) ==
    <<"T", "0", HexDigit(t.sec)>>
        \o (IF t.tenths = 0 THEN <<>> ELSE <<".", HexDigit(t.tenths)>>)
        \o <<"U", "T", "C">>

RoleName(role) ==
    IF role = PerspectiveClient
    THEN <<"c", "l", "i", "e", "n", "t">>
    ELSE <<"s", "e", "r", "v", "e", "r">>

QlogDir == <<"q">>

PathSeparator == <<"/">>

QlogZst == <<".", "q", "l", "o", "g", ".", "z", "s", "t">>

\* "%s%clog_%s_%s_%x.qlog.zst"
finalFilename(qlogDir, t, r, connID) ==
    qlogDir \o PathSeparator \o <<"l", "o", "g", "_">> \o t \o <<"_">> \o r \o <<"_">>
        \o Hex(connID) \o QlogZst

\* "%s%c.log_%s_%s_%x.qlog.zst.swp"
filename(qlogDir, t, r, connID) ==
    qlogDir \o PathSeparator \o <<".", "l", "o", "g", "_">> \o t \o <<"_">> \o r \o <<"_">>
        \o Hex(connID) \o QlogZst \o <<".", "s", "w", "p">>

\* newQlogger, its first lines: the names of the writer of one connection
newQloggerNames(t, role, connID) ==
    /\ Len(names) < MaxWriters
    /\ names' = Append(names,
                    [connID |-> connID, t |-> t, role |-> role,
                     final |-> finalFilename(QlogDir, Format(t), RoleName(role), connID),
                     temp |-> filename(QlogDir, Format(t), RoleName(role), connID)])
    /\ UNCHANGED <<statsVars, qlogVars>>

----------------------------------------------------------------------------
(* The specifications *)

VersionLists == {<<1>>, <<1, 2>>}

\* no qlogger yet
QlogNew ==
    /\ pc = "new"
    /\ w = NewWriter(FALSE)
    /\ fs = [p \in Paths |-> NoFile]
    /\ fopen = FALSE
    /\ written = <<>>
    /\ steps = <<>>
    /\ bwcRet = "pending"
    /\ closeRet = "pending"
    /\ names = <<>>

\* a connection tracer just built by newConnectionTracer
TracerNew(perspectives) ==
    /\ stats \in {newConnectionTracer(p) : p \in perspectives}
    /\ now = 1
    /\ crashed = FALSE
    /\ closeCalls = 0
    /\ rows = <<>>
    /\ logged = <<>>
    /\ nEvents = 0
    /\ delivered = [k \in PacketKinds |-> 0]
    /\ ptoHist = <<>>

PlentyOfDisk == [limited |-> FALSE, free |-> 0]

\* the connection tracer driven by the engine: any callback, in any order
StatsInit ==
    /\ TracerNew(Perspectives)
    /\ QlogNew
    /\ disk = PlentyOfDisk

PTOValues == 0..MaxPTOValue

\* among all the callbacks, a report of zero and a report of a nonzero value
SomePTOValues == {0, MaxPTOValue}

\* the engine delivers a callback: the process is alive, and the model
\* follows one tracer for MaxEvents callbacks
Running == ~crashed /\ nEvents < MaxEvents

StatsNext ==
    \/ \E l \in Addrs, r \in Addrs, v \in Versions : Running /\ StartedConnection(l, r, v)
    \/ \E r \in CloseReasons : Running /\ ClosedConnection(r)
    \/ Running /\ SentPacket
    \/ \E v \in VersionLists : Running /\ ReceivedVersionNegotiationPacket(v)
    \/ Running /\ ReceivedRetry
    \/ Running /\ ReceivedPacket
    \/ Running /\ BufferedPacket
    \/ Running /\ DroppedPacket
    \/ \E m \in RTTSamples : Running /\ UpdatedMetrics(m)
    \/ Running /\ LostPacket
    \/ \E v \in SomePTOValues : Running /\ UpdatedPTOCount(v)
    \/ \E l \in EncryptionLevels, p \in Perspectives : Running /\ UpdatedKeyFromTLS(l, p)
    \/ Running /\ SentTransportParameters
    \/ Running /\ ReceivedTransportParameters
    \/ Running /\ UpdatedCongestionState
    \/ Running /\ UpdatedKey
    \/ Running /\ DroppedEncryptionLevel
    \/ Running /\ DroppedKey
    \/ Running /\ SetLossTimer
    \/ Running /\ LossTimerExpired
    \/ Running /\ LossTimerCanceled
    \/ Running /\ Debug
    \/ \E c \in ClientResults, p \in PutResults : Running /\ TracerClose(c, p)

SpecStats == StatsInit /\ [][StatsNext]_vars

(* The PTO counter alone: a tracer that is delivered UpdatedPTOCount          *)
(* callbacks only, long enough for the sequences the PTO claims are about. *)
PTONext ==
    \E v \in PTOValues :
        ~crashed /\ Len(ptoHist) < MaxPTOUpdates /\ UpdatedPTOCount(v)

SpecPTO == StatsInit /\ [][PTONext]_vars

(* The qlogger of one connection: created, written to, and closed, on a    *)
(* device that either has room or fills up after a few blocks.             *)
QlogInit ==
    /\ TracerNew({PerspectiveClient})
    /\ QlogNew
    /\ disk \in {PlentyOfDisk} \cup {[limited |-> TRUE, free |-> n] : n \in 0..MaxDisk}

QlogNext ==
    \/ \E mkdir \in BOOLEAN, create \in BOOLEAN, zinit \in BOOLEAN, async \in BOOLEAN :
          initQlogger(mkdir, create, zinit, async)
    \/ \E n \in 0..MaxWriteLen :
          Len(written) + n <= MaxWritten /\ Write(NextBytes(n))
    \/ CloseFlush
    \/ CloseCodec
    \/ \E err \in FileCloseResults : CloseFile(err)
    \/ \E err \in RenameResults : Rename(err)

SpecQlog == QlogInit /\ [][QlogNext]_vars

(* The end of one connection: the engine reports the close and calls the    *)
(* tracer's Close, which saves the record to the remote table, while the   *)
(* qlog tracer writes to and closes the qlogger of the same connection.    *)
(* The two run in separate goroutines of the engine, in any interleaving.  *)
(* The directory can be made and the temp file created, and the qlog       *)
(* tracer writes MaxWriteLen bytes at a time.                              *)
CloseInit ==
    /\ TracerNew({PerspectiveClient})
    /\ QlogNew
    /\ disk = PlentyOfDisk

CloseNext ==
    \/ \E l \in Addrs, r \in Addrs, v \in Versions : Running /\ StartedConnection(l, r, v)
    \/ Running /\ ClosedConnection(NewTimeoutCloseReason(TimeoutReasonIdle))
    \/ \E c \in ClientResults, p \in PutResults : Running /\ TracerClose(c, p)
    \/ \E async \in BOOLEAN : initQlogger(TRUE, TRUE, TRUE, async)
    \/ Len(written) + MaxWriteLen <= MaxWritten /\ Write(NextBytes(MaxWriteLen))
    \/ CloseFlush
    \/ CloseCodec
    \/ \E err \in FileCloseResults : CloseFile(err)
    \/ \E err \in RenameResults : Rename(err)

SpecClose == CloseInit /\ [][CloseNext]_vars

(* The writers the engine creates in one QLOGDIR, one per connection, from *)
(* any goroutine and so in any order and at any times.                     *)
NamesInit ==
    /\ TracerNew({PerspectiveClient})
    /\ QlogNew
    /\ disk = PlentyOfDisk

NamesNext ==
    \E t \in Times, role \in Perspectives, connID \in ConnIDs :
        newQloggerNames(t, role, connID)

SpecNames == NamesInit /\ [][NamesNext]_vars

(* A qlogger created where a file already has its temp name: the temp file *)
(* of a writer of the same time, role and connection ID, or of a process   *)
(* that died before its Close, holding the start of a frame.               *)
OrphanFile ==
    [exists |-> TRUE,
     data |-> <<HeaderToken, BlockToken(FALSE, [i \in 1..ZBlock |-> i])>>]

ReuseInit ==
    /\ TracerNew({PerspectiveClient})
    /\ pc = "new"
    /\ w = NewWriter(FALSE)
    /\ fs = [p \in Paths |-> IF p = TempPath THEN OrphanFile ELSE NoFile]
    /\ fopen = FALSE
    /\ written = <<>>
    /\ steps = <<>>
    /\ bwcRet = "pending"
    /\ closeRet = "pending"
    /\ names = <<>>
    /\ disk \in {PlentyOfDisk} \cup {[limited |-> TRUE, free |-> n] : n \in 0..MaxDisk}

SpecReuse == ReuseInit /\ [][QlogNext]_vars

----------------------------------------------------------------------------
(* Claims about the qlogger *)

StepOps == [i \in 1..Len(steps) |-> steps[i].op]

StepFailed(i) == steps[i].ret # "nil"

\* C1: once qlogger.Close has returned nil, the temp path is gone, the final
\* path exists, and the final file is a complete frame whose decoded content
\* is every byte passed to Write, in call order, with nothing left in the
\* bufio buffer or in the encoder.
C1_FinalFileIsWholeStream ==
    (pc = "done" /\ closeRet = "nil")
        => /\ ~fs[TempPath].exists
           /\ fs[FinalPath].exists
           /\ IsCompleteStream(fs[FinalPath].data)
           /\ Decoded(fs[FinalPath].data) = written
           /\ w.buf = <<>> /\ w.zfill = <<>>

C1_Witness ==
    /\ pc = "done" /\ closeRet = "nil"
    /\ Len(written) > BufSize + ZBlock
    /\ Len(fs[FinalPath].data) > 3

\* C2: the final path exists only if Close ran Flush, the encoder's Close,
\* the file's Close and Rename, in this order and each with success; from the
\* creation of the writer until Close is called, the temp path exists and the
\* final path does not.
C2_FinalOnlyByRename ==
    /\ fs[FinalPath].exists
          => /\ StepOps = <<"Flush", "zstd.Close", "File.Close", "Rename">>
             /\ \A i \in 1..Len(steps) : ~StepFailed(i)
    /\ pc = "open" => (fs[TempPath].exists /\ ~fs[FinalPath].exists)
    /\ pc \in {"flushed", "zclosed", "fclosed"} => ~fs[FinalPath].exists

C2_Witness ==
    /\ pc = "fclosed" /\ Len(written) > BufSize
    /\ fs[TempPath].exists /\ ~fs[FinalPath].exists

\* C3: if a step of Close fails (Flush, the encoder's Close, the file's Close
\* or Rename), it is the last step Close makes, Close returns its error, the
\* final path does not exist and the temp file is still there.
C3_FailedCloseLeavesTemp ==
    /\ \A i \in 1..Len(steps) :
          StepFailed(i)
             => /\ i = Len(steps)
                /\ pc = "done"
                /\ closeRet = steps[i].ret
                /\ ~fs[FinalPath].exists
                /\ fs[TempPath].exists
    /\ (pc = "done" /\ closeRet # "nil")
          => (steps # <<>> /\ StepFailed(Len(steps)))

C3_Witness ==
    /\ pc = "done" /\ closeRet = "rename failed"
    /\ fs[TempPath].exists /\ ~fs[FinalPath].exists /\ Len(written) > 0

\* C4: bufferedWriteCloser.Close calls the sink's Close only after a Flush
\* that succeeded, when no byte is left in the buffer and the sink has been
\* fed every byte written; after a failed Flush it returns the error of the
\* Flush and never calls the sink's Close; after a successful Flush it
\* returns what the sink's Close returned.
C4_FlushBeforeClose ==
    /\ \A i \in 1..Len(steps) :
          steps[i].op = "zstd.Close"
             => /\ i = 2 /\ steps[1].op = "Flush" /\ ~StepFailed(1)
                /\ steps[i].pending = 0
                /\ steps[i].fed = written
                /\ bwcRet = steps[i].ret
    /\ (steps # <<>> /\ steps[1].op = "Flush" /\ StepFailed(1))
          => /\ bwcRet = steps[1].ret
             /\ \A i \in 1..Len(steps) : steps[i].op # "zstd.Close"
    /\ bwcRet # "pending" => steps # <<>>

C4_Witness ==
    /\ Len(steps) >= 2 /\ steps[2].op = "zstd.Close"
    /\ steps[1].pending > 0 /\ steps[2].pending = 0
    /\ bwcRet = "no space left on device"

----------------------------------------------------------------------------
(* Claims about the ConnectionStats aggregator *)

RECURSIVE PositiveCount(_)
\* the number of positions of h that hold a value > 0
PositiveCount(h) ==
    IF h = <<>> THEN 0
    ELSE PositiveCount(SubSeq(h, 1, Len(h) - 1)) + (IF h[Len(h)] > 0 THEN 1 ELSE 0)

\* the number of positions of h that hold a value > 0 while the value before
\* them (or the initial state) is 0
ZeroToNonzero(h) ==
    Cardinality({i \in 1..Len(h) : h[i] > 0 /\ (i = 1 \/ h[i - 1] = 0)})

PTOExample == <<0, 1, 1, 2, 0, 3>>

\* C5, as stated: PTOCount counts the transitions of the reported value from
\* zero to nonzero; the reports 0,1,1,2,0,3 give 2.
C5_CountsTransitions ==
    /\ stats.PTOCount = ZeroToNonzero(ptoHist)
    /\ ptoHist = PTOExample => stats.PTOCount = 2

\* C5, amended: PTOCount counts every report of a value > 0, whatever the
\* value reported before it; the reports 0,1,1,2,0,3 give 4.
C5_CountsPositiveReports ==
    /\ stats.PTOCount = PositiveCount(ptoHist)
    /\ ptoHist = PTOExample => stats.PTOCount = 4

C5_Witness == ptoHist = PTOExample /\ stats.PTOCount = 4

\* C6: the handshake-complete time and the handshake RTT snapshot are set by
\* the first 1-RTT client key-install event, from the last-RTT triple of that
\* moment, and no later event changes them.
C6_HandshakeSetOnce ==
    [][/\ (IsZero(stats.HandshakeCompleteTime) /\ ~IsZero(stats'.HandshakeCompleteTime))
            => stats'.HandshakeRTT = stats.LastRTT
       /\ ~IsZero(stats.HandshakeCompleteTime)
            => /\ stats'.HandshakeCompleteTime = stats.HandshakeCompleteTime
               /\ stats'.HandshakeRTT = stats.HandshakeRTT]_vars

CountersMatch ==
    /\ stats.PacketsSent = delivered["sent"]
    /\ stats.PacketsRcvd =
          delivered["received"] + delivered["retry"] + delivered["versionNegotiation"]
    /\ stats.PacketsBuffered = delivered["buffered"]
    /\ stats.PacketsDropped = delivered["dropped"]
    /\ stats.PacketsLost = delivered["lost"]

CountersNeverDecrease ==
    /\ stats'.PacketsSent >= stats.PacketsSent
    /\ stats'.PacketsRcvd >= stats.PacketsRcvd
    /\ stats'.PacketsBuffered >= stats.PacketsBuffered
    /\ stats'.PacketsDropped >= stats.PacketsDropped
    /\ stats'.PacketsLost >= stats.PacketsLost

\* C7: each packet counter equals the number of its events delivered so far
\* (received = regular + retry + version negotiation), in every state, so no
\* other event changes it; and no step decreases a counter.
C7_CountersCountEvents == []CountersMatch /\ [][CountersNeverDecrease]_vars

C7_Witness ==
    /\ delivered["received"] = 1 /\ delivered["retry"] = 1
    /\ delivered["versionNegotiation"] = 1 /\ stats.PacketsRcvd = 3
    /\ delivered["sent"] = 1 /\ stats.PacketsSent = 1

CloseReasonFields == {"Timeout", "StatelessReset", "TransportError", "ApplicationError"}

FieldsSet(cr) == {f \in CloseReasonFields : cr[f] # Null}

AtMostOneSet(cr) == Cardinality(FieldsSet(cr)) <= 1

\* C8: the close-reason record of the row has at most one of timeout,
\* stateless_reset, transport_error, application_error set, whatever the close
\* reason recorded; a stateless reset sets stateless_reset alone. It holds of
\* the record built from the current stats and of every row handed to Put.
C8_CloseReasonExclusive ==
    /\ AtMostOneSet(closeReason(stats.CloseReason))
    /\ stats.CloseReason.statelessReset
          => FieldsSet(closeReason(stats.CloseReason)) = {"StatelessReset"}
    /\ \A i \in 1..Len(rows) : AtMostOneSet(rows[i].CloseReason)

C8_Witness ==
    /\ stats.CloseReason.statelessReset
    /\ \E i \in 1..Len(rows) : FieldsSet(rows[i].CloseReason) = {"StatelessReset"}

\* C9: once end time is set, no later event changes end time or close reason,
\* and end time >= start time wherever end time is set.
C9_EndSetOnce ==
    /\ [][~IsZero(stats.EndTime)
            => /\ stats'.EndTime = stats.EndTime
               /\ stats'.CloseReason = stats.CloseReason]_vars
    /\ [](~IsZero(stats.EndTime) => stats.EndTime >= stats.StartTime)

\* C10: the close handler returns normally after every sequence of events:
\* no call of it panics.
C10_CloseNeverPanics == ~crashed

----------------------------------------------------------------------------
(* Claims about the end of a connection *)

\* a step in which Save failed at the remote table: Close logged an error
SinkFailureStep == Len(logged') = Len(logged) + 1

\* the next call of qlogger.Close can be made
FinalizeCanProceed ==
    /\ pc = "open" => ENABLED CloseFlush
    /\ pc = "flushed" => ENABLED CloseCodec
    /\ pc = "zclosed" => ENABLED CloseFile("nil")
    /\ pc = "fclosed" => ENABLED Rename("nil")

\* C11: a failure of the remote table (the client cannot be built, the upsert
\* fails or times out) is logged by Close and nothing more: Close returns, the
\* process does not panic, the ConnectionStats record and the qlogger are as
\* they were, and after it the qlogger's Close can still make each of its
\* calls, so that the temp file is renamed to the final name whether the
\* failed upsert comes before, after or in the middle of qlogger.Close.
C11_SinkFailureOnlyLogged ==
    /\ [][SinkFailureStep =>
            /\ stats' = stats
            /\ ~crashed'
            /\ closeCalls' = closeCalls + 1
            /\ qlogVars' = qlogVars]_vars
    /\ [](logged # <<>> => FinalizeCanProceed)

\* the upsert failed between the Flush and the Rename of a qlogger.Close that
\* returned nil and left the whole stream under the final name
C11_Witness ==
    /\ pc = "done" /\ closeRet = "nil"
    /\ fs[FinalPath].exists /\ ~fs[TempPath].exists
    /\ Decoded(fs[FinalPath].data) = written /\ written # <<>>
    /\ steps[1].closes = 0
    /\ steps[Len(steps)].closes = 1
    /\ logged = <<"upsert failed">>
    /\ rows # <<>>

----------------------------------------------------------------------------
(* Claims about the row saved to the remote table *)

\* a step in which Save serialized the record and handed the row to Put
RowSerialized == Len(rows') = Len(rows) + 1

NewRow == rows'[Len(rows')]

\* C12: one tracer hands at most one row to the remote table, and the row it
\* hands over is of a finalized record: its end time has been set by
\* ClosedConnection.
C12_OneUpsertOfFinalizedRecord ==
    /\ Len(rows) <= 1
    /\ \A i \in 1..Len(rows) : ~IsZero(rows[i].EndTime)

\* C13: the row Save hands to Put carries the record's counters as they are
\* when it is built: packets sent, received, buffered, dropped and lost, and
\* the PTO count.
C13_RowCarriesCounters ==
    [][RowSerialized =>
        /\ NewRow.PacketsSent = stats.PacketsSent
        /\ NewRow.PacketsRcvd = stats.PacketsRcvd
        /\ NewRow.PacketsBuffered = stats.PacketsBuffered
        /\ NewRow.PacketsDropped = stats.PacketsDropped
        /\ NewRow.PacketsLost = stats.PacketsLost
        /\ NewRow.PTOCount = stats.PTOCount]_vars

----------------------------------------------------------------------------
(* Claims about the file names *)

PathsOf(n) == {n.final, n.temp}

\* C14: two writers of the same QLOGDIR whose connection IDs differ have
\* different final names and different temp names, and no path in common,
\* whatever their times and roles.
C14_DistinctIdsDistinctNames ==
    \A i, j \in 1..Len(names) :
        names[i].connID # names[j].connID
            => /\ names[i].final # names[j].final
               /\ names[i].temp # names[j].temp
               /\ PathsOf(names[i]) \cap PathsOf(names[j]) = {}

\* two writers of the same time and role, of the connection IDs 0100 and 10
C14_Witness ==
    /\ Len(names) = 2
    /\ names[1].t = names[2].t /\ names[1].role = names[2].role
    /\ names[1].connID = <<1, 0>> /\ names[2].connID = <<16>>
    /\ Hex(names[1].connID) = <<"0", "1", "0", "0">>

----------------------------------------------------------------------------
(* Claims about the creation of the qlogger *)

\* C15: when a file already has the temp name, newQlogger fails: there is no
\* writer, and the file is as it was.
C15_ExclusiveCreation ==
    [][(pc = "new" /\ fs[TempPath].exists)
            => (pc' = "nowriter" /\ fs' = fs)]_vars

\* C17: when os.MkdirAll, os.Create or zstd.NewWriter fails, the callback
\* returns nil: there is no writer, nothing has been written or closed, the
\* process goes on, and no file has the final name.
C17_SetupFailureLeavesNoFinalFile ==
    pc = "nowriter"
        => /\ ~fs[FinalPath].exists
           /\ written = <<>> /\ steps = <<>>
           /\ bwcRet = "pending" /\ closeRet = "pending"
           /\ ~crashed

\* zstd.NewWriter failed after os.Create made the temp file
C17_Witness ==
    /\ pc = "nowriter"
    /\ fs[TempPath].exists /\ fopen
    /\ ~fs[FinalPath].exists

----------------------------------------------------------------------------
(* Claims about the order of qlogger.Close *)

FinalizeOrder == <<"Flush", "zstd.Close", "File.Close", "Rename">>

\* C16: qlogger.Close makes its calls in the order Flush, the encoder's Close,
\* the file's Close, Rename, each one only after the one before returned nil;
\* when Rename is called the handle is closed and no byte is left in the bufio
\* buffer or in the encoder.
C16_FinalizeInOrder ==
    /\ Len(steps) <= Len(FinalizeOrder)
    /\ StepOps = SubSeq(FinalizeOrder, 1, Len(steps))
    /\ \A i \in 1..(Len(steps) - 1) : ~StepFailed(i)
    /\ \A i \in 1..Len(steps) :
          steps[i].op = "Rename"
              => /\ ~steps[i].open
                 /\ steps[i].pending = 0
                 /\ steps[i].unframed = 0

\* Rename called after bytes went through the bufio buffer and the encoder
C16_Witness ==
    /\ Len(steps) = 4
    /\ steps[4].op = "Rename" /\ ~steps[4].open
    /\ steps[1].pending > 0 /\ steps[2].unframed > 0
    /\ steps[3].open

----------------------------------------------------------------------------
(* Claims about the callbacks, one step at a time *)

\* a step in which UpdatedPTOCount was delivered
PTOReported == Len(ptoHist') = Len(ptoHist) + 1

ReportedValue == ptoHist'[Len(ptoHist')]

\* C18: an UpdatedPTOCount with a value > 0 adds exactly 1 to PTOCount and one
\* with the value 0 leaves it as it is; no other callback changes it, so that
\* PTOCount is always the number of reports with a value > 0.
C18_EachPositiveReportCounts ==
    /\ [][IF PTOReported
          THEN stats'.PTOCount = stats.PTOCount + (IF ReportedValue > 0 THEN 1 ELSE 0)
          ELSE stats'.PTOCount = stats.PTOCount]_vars
    /\ [](stats.PTOCount = PositiveCount(ptoHist))

\* the same nonzero value reported twice, then zero, among other callbacks
C18_Witness ==
    /\ Len(ptoHist) = 3 /\ nEvents > 3
    /\ ptoHist[1] = MaxPTOValue /\ ptoHist[2] = MaxPTOValue /\ ptoHist[3] = 0
    /\ stats.PTOCount = 2

\* the callbacks with an empty body, and UpdatedKeyFromTLS for a key that is
\* not the client's 1-RTT key
NoStateEvents ==
    \/ SentTransportParameters
    \/ ReceivedTransportParameters
    \/ UpdatedCongestionState
    \/ UpdatedKey
    \/ DroppedEncryptionLevel
    \/ DroppedKey
    \/ SetLossTimer
    \/ LossTimerExpired
    \/ LossTimerCanceled
    \/ Debug
    \/ \E l \in EncryptionLevels, p \in Perspectives :
          /\ ~(l = Encryption1RTT /\ p = PerspectiveClient)
          /\ UpdatedKeyFromTLS(l, p)

\* C19: transport parameters sent or received, congestion state updated, key
\* updated, encryption level dropped, key dropped, loss timer set, expired or
\* canceled, a debug message, and a key installed at another level than 1-RTT
\* or for the server: none changes any field of the ConnectionStats record,
\* whatever the record holds when the callback comes.
C19_NoStateEventsChangeNothing ==
    [][NoStateEvents => stats' = stats]_vars

\* MaxEvents callbacks delivered, and the record still as newConnectionTracer
\* built it: every callback with an effect would have left a mark in it, in
\* the PTO reports or in the calls of Close
C19_Witness ==
    /\ nEvents = MaxEvents
    /\ stats = newConnectionTracer(stats.Perspective)
    /\ ptoHist = <<>> /\ closeCalls = 0 /\ ~crashed

\* C20: in the row, the handshake-complete time and the handshake RTT are both
\* null when the record's handshake-complete time is unset, and both non-null
\* and equal to the record's time and RTT snapshot when it is set.
C20_HandshakeFieldsNullTogether ==
    [][RowSerialized =>
        IF IsZero(stats.HandshakeCompleteTime)
        THEN NewRow.HandshakeCompleteTime = Null /\ NewRow.HandshakeRTT = Null
        ELSE /\ NewRow.HandshakeCompleteTime = Some(stats.HandshakeCompleteTime)
             /\ NewRow.HandshakeRTT = Some(RTTtoBigQuery(stats.HandshakeRTT))]_vars

====
